---- MODULE Spec2Model ----
(***************************************************************************)
(* Offline-first synchronisation of parisgastos: the useOfflineSync hook   *)
(* (hooks/use-offline-sync) over the IndexedDB wrapper                     *)
(* (lib/offline-storage.ts).                                               *)
(*                                                                         *)
(* The hook is a React function component hook: isOnline, isSyncing,       *)
(* wasOffline and pendingCount are React state.  A setter changes the      *)
(* state at once, but the callbacks (syncPendingActions, updateExpense,    *)
(* deleteExpense) read the values captured by the render that created      *)
(* them; Render is the step that re-creates the callbacks whose dependency *)
(* list changed and runs the effect.  Every await of the source is a       *)
(* suspension point: one action of the model is the resolution of one      *)
(* awaited operation followed by the synchronous code up to the next       *)
(* await.                                                                  *)
(***************************************************************************)
EXTENDS Integers, Sequences, FiniteSets, TLC

\* ---------------------------------------------------------------- bounds
MaxActions == 2      \* pending actions generated in one behaviour
MaxDrains  == 2      \* drain passes started in one behaviour
MaxCalls   == 1      \* updateExpense/deleteExpense invocations in flight together
MaxLen     == 2      \* records in one saveMultipleExpenses call
MaxTime    == 4      \* minutes the clock of the dashboard runs
MaxFailures == 3     \* failed Splitwise syncs in a row
MaxEvents  == 1      \* pageshow/visibilitychange events on one page

SYNC_COOLDOWN_MS == 3  \* 3 * 60 * 1000 ms, in minutes

Ids       == {"e1", "e2"}          \* ids of the cached expenses
Amounts   == {10, 25}              \* values of the edited field
ActionIds == 1 .. MaxActions       \* crypto.randomUUID() values, in key order
DrainIds  == 1 .. MaxDrains
CallIds   == 1 .. MaxCalls

VARIABLES
  expenses,      \* object store 'expenses' (keyPath id)
  pendingStore,  \* object store 'pending-sync' (keyPath id)
  remote,        \* table splitwise_expenses of the remote service: id -> amount, 0 = no row
  isOnline,      \* useState(true)
  isSyncing,     \* useState(false)
  wasOffline,    \* useState(false)
  pendingCount,  \* useState(0)
  rIsOnline,     \* isOnline as seen by the last render
  rIsSyncing,    \* isSyncing as seen by the last render
  uSyncing,      \* isSyncing captured by the syncPendingActions that updateExpense/deleteExpense closed over
  timer,         \* the setTimeout of the online effect is armed
  drains,        \* invocations of syncPendingActions past the guard
  calls,         \* invocations of updateExpense/deleteExpense
  usedIds,       \* action ids generated so far (the clock Date.now() advances with them)
  confirmedIds,  \* history: ids of the actions whose remote call succeeded in a pass that has finished
  syncing,       \* DashboardClient: useState(false), a Splitwise sync is in progress
  dash           \* DashboardClient: the rest of its state, the clock and localStorage

vars == <<expenses, pendingStore, remote, isOnline, isSyncing, wasOffline,
          pendingCount, rIsOnline, rIsSyncing, uSyncing, timer, drains,
          calls, usedIds, confirmedIds, syncing, dash>>

\* ------------------------------------------------------- the local store

\* OfflineExpense, reduced to its key, one edited field and the synced flag;
\* the other fields travel through every operation exactly as amount does.
OfflineExpense == [id : Ids, amount : Amounts, synced : BOOLEAN]

NoExpense == [id |-> "none", amount |-> 0, synced |-> FALSE]
NoAction  == [id |-> 0, action |-> "none", expense |-> NoExpense, timestamp |-> 0]

\* store.getAll() of the expenses store
getAllExpenses == expenses

\* mutant: a missing record is taken to be a fresh one instead of undefined
findOrBlank(all, id) ==
  IF \E e \in all : e.id = id THEN CHOOSE e \in all : e.id = id
  ELSE [id |-> id, amount |-> 10, synced |-> TRUE]

\* expenses.find((e) => e.id === id)
find(all, id) ==
  IF \E e \in all : e.id = id THEN CHOOSE e \in all : e.id = id ELSE NoExpense

\* mutant: the record is added next to the one stored under its key
saveExpenseAdd(store, expense) == store \cup {expense}

\* store.put(expense): insert or replace by key
saveExpense(store, expense) ==
  {e \in store : e.id # expense.id} \cup {expense}

\* expenses.forEach((expense) => store.put(expense)) in one transaction
RECURSIVE saveMultipleExpenses(_, _)
saveMultipleExpenses(store, list) ==
  IF list = <<>> THEN store
  ELSE saveMultipleExpenses(saveExpense(store, Head(list)), Tail(list))

\* store.delete(id) of the expenses store
deleteExpenseRecord(store, id) == {e \in store : e.id # id}

\* mutant: one queue entry per record, a new action replaces the earlier
\* ones of the same record
addPendingActionPerRecord(store, action) ==
  {a \in store : a.expense.id # action.expense.id} \cup {action}

\* store.put(action) of the pending store
addPendingAction(store, action) ==
  {a \in store : a.id # action.id} \cup {action}

\* mutant: the action is not removed
deletePendingActionKeeps(store, id) == store

\* store.delete(id) of the pending store
deletePendingAction(store, id) == {a \in store : a.id # id}

\* the elements of S as a sequence in ascending primary-key order
RECURSIVE ByKey(_)
ByKey(S) ==
  IF S = {} THEN <<>>
  ELSE LET m == CHOOSE a \in S : \A b \in S : a.id <= b.id
       IN  <<m>> \o ByKey(S \ {m})

\* store.getAll() of the pending store: the object store's key is id, so
\* the result is ordered by id; the 'timestamp' index is not used.
getPendingActions(store) == ByKey(store)

\* Date.now() when the next action is built
Now == Cardinality(usedIds) + 1

\* ------------------------------------------------------------- dashboard

\* useState<string | null>(null), localStorage.getItem of a missing key
Null == -1

\* the syncSplitwise that a render creates: the state it closes over
Closure(s, last, failures) ==
  [syncing |-> s, lastSyncAt |-> last, syncFailureCount |-> failures]

\* DashboardClient before its mount effect has run, on a device that has
\* never synced
DashboardInit ==
  [mounted |-> FALSE,                 \* user and tripId are resolved
   now |-> 0,                         \* Date.now(), in minutes
   stored |-> Null,                   \* localStorage['splitwise_last_sync_at']
   lastSyncAt |-> Null,               \* useState(null)
   syncFailureCount |-> 0,            \* useState(0)
   handler |-> Closure(FALSE, Null, 0),  \* the syncSplitwise that the pageshow/visibilitychange handlers closed over
   requests |-> <<>>,                 \* POST /api/splitwise/sync in flight, each with its callback's closure
   toast |-> FALSE,                   \* history: the last sync that settled called toast.error
   result |-> "none",                 \* history: how the last sync settled
   events |-> 0]                      \* history: pageshow/visibilitychange events handled

\* -------------------------------------------------------------- processes

IdleDrain == [pc |-> "idle", pending |-> <<>>, i |-> 0, out |-> <<>>]
DoneDrain == [IdleDrain EXCEPT !.pc = "done"]
IdleCall  == [pc |-> "idle", kind |-> "none", id |-> "none", amount |-> 0,
              online |-> FALSE, syncing |-> FALSE,
              expense |-> NoExpense, action |-> NoAction]

\* passes are numbered in the order in which they get past the guard
Started   == {d \in DrainIds : drains[d].pc # "idle"}
InFlight  == {d \in DrainIds : drains[d].pc \notin {"idle", "done"}}
FreeDrain == Cardinality(Started) + 1

\* actions that calls in flight are still going to generate
Reserved == Cardinality({c \in CallIds : calls[c].pc \in {"find", "save"}})

Init ==
  /\ expenses = {[id |-> i, amount |-> 10, synced |-> TRUE] : i \in Ids}
  /\ pendingStore = {}
  /\ remote = [i \in Ids |-> 10]
  /\ isOnline \in BOOLEAN          \* setIsOnline(navigator.onLine) of the mount effect
  /\ isSyncing = FALSE
  /\ wasOffline = FALSE
  /\ pendingCount = 0
  /\ rIsOnline = TRUE
  /\ rIsSyncing = FALSE
  /\ uSyncing = FALSE
  /\ timer = FALSE
  /\ drains = [d \in DrainIds |-> IdleDrain]
  /\ calls = [c \in CallIds |-> IdleCall]
  /\ usedIds = {}
  /\ confirmedIds = {}
  /\ syncing = FALSE
  /\ dash = DashboardInit

\* ---------------------------------------------------- connectivity, render

\* The component has rendered with the current state.  React commits the
\* render that a setter asked for before the browser delivers the next event
\* or settles the next awaited operation, so every other step waits for it.
Rendered == <<isOnline, isSyncing>> = <<rIsOnline, rIsSyncing>>

\* window 'online' event: handleOnline
handleOnline ==
  /\ Rendered
  /\ ~isOnline
  /\ isOnline' = TRUE
  /\ UNCHANGED <<expenses, pendingStore, remote, isSyncing, wasOffline,
                 pendingCount, rIsOnline, rIsSyncing, uSyncing, timer,
                 drains, calls, usedIds, confirmedIds, syncing, dash>>

\* window 'offline' event: handleOffline
handleOffline ==
  /\ Rendered
  /\ isOnline
  /\ isOnline' = FALSE
  /\ UNCHANGED <<expenses, pendingStore, remote, isSyncing, wasOffline,
                 pendingCount, rIsOnline, rIsSyncing, uSyncing, timer,
                 drains, calls, usedIds, confirmedIds, syncing, dash>>

\* mutant: the online effect depends on isOnline only and is not run again
\* when isSyncing changes
RenderOnlineOnly ==
  /\ ~Rendered
  /\ rIsOnline' = isOnline
  /\ rIsSyncing' = isSyncing
  /\ uSyncing' = IF isOnline # rIsOnline THEN isSyncing ELSE uSyncing
  /\ IF isOnline = rIsOnline THEN UNCHANGED <<timer, wasOffline>>
     ELSE IF isOnline /\ wasOffline /\ ~isSyncing
       THEN timer' = TRUE /\ wasOffline' = FALSE
       ELSE /\ timer' = FALSE
            /\ wasOffline' = IF ~isOnline THEN TRUE ELSE wasOffline
  /\ UNCHANGED <<expenses, pendingStore, remote, isOnline, isSyncing,
                 pendingCount, drains, calls, usedIds, confirmedIds, syncing, dash>>

\* A render after isOnline or isSyncing changed.  syncPendingActions is
\* re-created (deps [isOnline, isSyncing]); updateExpense and deleteExpense
\* are re-created only when isOnline changed (deps [isOnline]) and then
\* close over this render's syncPendingActions; the online effect (deps
\* [isOnline, isSyncing]) runs its cleanup and then its body.
Render ==
  /\ ~Rendered
  /\ rIsOnline' = isOnline
  /\ rIsSyncing' = isSyncing
  /\ uSyncing' = IF isOnline # rIsOnline THEN isSyncing ELSE uSyncing
  /\ IF isOnline /\ wasOffline /\ ~isSyncing
       THEN timer' = TRUE /\ wasOffline' = FALSE
       ELSE /\ timer' = FALSE
            /\ wasOffline' = IF ~isOnline THEN TRUE ELSE wasOffline
  /\ UNCHANGED <<expenses, pendingStore, remote, isOnline, isSyncing,
                 pendingCount, drains, calls, usedIds, confirmedIds, syncing, dash>>

\* ------------------------------------------------------ syncPendingActions

\* if (!isOnline || isSyncing) return, on the values the callback captured
PassesGuard(online, captured) == online /\ ~captured

\* setIsSyncing(true) and the first await, offlineStorage.getPendingActions()
Enter(d) ==
  /\ isSyncing' = TRUE
  /\ drains' = [drains EXCEPT ![d] = [IdleDrain EXCEPT !.pc = "read"]]

\* syncPendingActions() called by the component that uses the hook, through
\* the callback of the last render
syncPendingActions ==
  /\ Rendered
  /\ PassesGuard(rIsOnline, rIsSyncing)
  /\ Started # DrainIds
  /\ Enter(FreeDrain)
  /\ UNCHANGED <<expenses, pendingStore, remote, isOnline, wasOffline,
                 pendingCount, rIsOnline, rIsSyncing, uSyncing, timer,
                 calls, usedIds, confirmedIds, syncing, dash>>

\* the timeout of the online effect fires; it was armed by a render with
\* isOnline and not isSyncing, and calls that render's syncPendingActions
TimerFires ==
  /\ Rendered
  /\ timer
  /\ Started # DrainIds
  /\ timer' = FALSE
  /\ Enter(FreeDrain)
  /\ UNCHANGED <<expenses, pendingStore, remote, isOnline, wasOffline,
                 pendingCount, rIsOnline, rIsSyncing, uSyncing, calls, usedIds, confirmedIds, syncing, dash>>

\* position of the loop after the action at index i is finished
NextPc(d) == IF drains[d].i < Len(drains[d].pending) THEN "remote" ELSE "recount"

Current(d) == drains[d].pending[drains[d].i]

\* ids of the actions of pass d whose remote call the service applied
Succeeded(d) ==
  {drains[d].pending[j].id : j \in {k \in 1 .. Len(drains[d].out) : drains[d].out[k] = "ok"}}

\* const pending = await offlineStorage.getPendingActions() resolves
DrainRead(d) ==
  /\ Rendered
  /\ drains[d].pc = "read"
  /\ LET p == getPendingActions(pendingStore)
     IN  drains' = [drains EXCEPT ![d] =
           [pc |-> IF p = <<>> THEN "recount" ELSE "remote",
            pending |-> p, i |-> IF p = <<>> THEN 0 ELSE 1, out |-> <<>>]]
  /\ UNCHANGED <<expenses, pendingStore, remote, isOnline, isSyncing,
                 wasOffline, pendingCount, rIsOnline, rIsSyncing, uSyncing,
                 timer, calls, usedIds, confirmedIds, syncing, dash>>

\* the row the remote service keeps after an update/delete that it applied
Applied(action) ==
  IF action.action = "delete" THEN [remote EXCEPT ![action.expense.id] = 0]
  ELSE IF remote[action.expense.id] = 0 THEN remote
  ELSE [remote EXCEPT ![action.expense.id] = action.expense.amount]

\* mutant: no catch around the action, a rejected call goes on like a resolved one
AfterRemoteNoCatch(d, outcome) ==
  [drains[d] EXCEPT !.out = Append(@, outcome),
     !.pc = IF Current(d).action = "delete" THEN "deleteLocal" ELSE "save"]

\* what the loop does once the awaited supabase call has settled: a call that
\* throws goes to the catch and on to the next action; a call that resolves,
\* with or without an error in its result, goes on to the local writes
AfterRemote(d, outcome) ==
  IF outcome = "throw" THEN
    [drains[d] EXCEPT !.out = Append(@, outcome), !.i = @ + 1, !.pc = NextPc(d)]
  ELSE
    [drains[d] EXCEPT !.out = Append(@, outcome),
       !.pc = IF Current(d).action = "delete" THEN "deleteLocal" ELSE "save"]

\* mutant: no catch in syncPendingActions, a rejected remote call ends the
\* pass there and then
DrainRemoteRejects(d, outcome) ==
  /\ Rendered
  /\ drains[d].pc = "remote"
  /\ remote' = IF outcome = "ok" THEN Applied(Current(d)) ELSE remote
  /\ drains' = [drains EXCEPT ![d] =
                  IF outcome = "throw" THEN DoneDrain ELSE AfterRemote(d, outcome)]
  /\ UNCHANGED <<expenses, pendingStore, isOnline, isSyncing, wasOffline,
                 pendingCount, rIsOnline, rIsSyncing, uSyncing, timer,
                 calls, usedIds, confirmedIds, syncing, dash>>

\* await supabaseClient.from('splitwise_expenses').update(..)/.delete() settles:
\* "ok" the service applied it, "error" it resolved to {error}, "throw" it rejected
DrainRemote(d, outcome) ==
  /\ Rendered
  /\ drains[d].pc = "remote"
  /\ remote' = IF outcome = "ok" THEN Applied(Current(d)) ELSE remote
  /\ drains' = [drains EXCEPT ![d] = AfterRemote(d, outcome)]
  /\ UNCHANGED <<expenses, pendingStore, isOnline, isSyncing, wasOffline,
                 pendingCount, rIsOnline, rIsSyncing, uSyncing, timer,
                 calls, usedIds, confirmedIds, syncing, dash>>

\* await offlineStorage.deleteExpense(action.expense.id) resolves
DrainDeleteLocal(d) ==
  /\ Rendered
  /\ drains[d].pc = "deleteLocal"
  /\ expenses' = deleteExpenseRecord(expenses, Current(d).expense.id)
  /\ drains' = [drains EXCEPT ![d].pc = "remove"]
  /\ UNCHANGED <<pendingStore, remote, isOnline, isSyncing, wasOffline,
                 pendingCount, rIsOnline, rIsSyncing, uSyncing, timer,
                 calls, usedIds, confirmedIds, syncing, dash>>

\* mutant: the record is written back without the flag
SyncedUnmarked(expense) == expense

\* { ...action.expense, synced: true }
Synced(expense) == [expense EXCEPT !.synced = TRUE]

\* await offlineStorage.saveExpense({...action.expense, synced: true}) resolves
DrainSave(d) ==
  /\ Rendered
  /\ drains[d].pc = "save"
  /\ expenses' = saveExpense(expenses, Synced(Current(d).expense))
  /\ drains' = [drains EXCEPT ![d].pc = "remove"]
  /\ UNCHANGED <<pendingStore, remote, isOnline, isSyncing, wasOffline,
                 pendingCount, rIsOnline, rIsSyncing, uSyncing, timer,
                 calls, usedIds, confirmedIds, syncing, dash>>

\* await offlineStorage.deletePendingAction(action.id) resolves
DrainRemove(d) ==
  /\ Rendered
  /\ drains[d].pc = "remove"
  /\ pendingStore' = deletePendingAction(pendingStore, Current(d).id)
  /\ drains' = [drains EXCEPT ![d].i = @ + 1, ![d].pc = NextPc(d)]
  /\ UNCHANGED <<expenses, remote, isOnline, isSyncing, wasOffline,
                 pendingCount, rIsOnline, rIsSyncing, uSyncing, timer,
                 calls, usedIds, confirmedIds, syncing, dash>>

\* mutant: the count is kept by local arithmetic instead of re-reading
DrainFinishArithmetic(d) ==
  /\ Rendered
  /\ drains[d].pc = "recount"
  /\ pendingCount' = pendingCount - Cardinality(Succeeded(d))
  /\ isSyncing' = FALSE
  /\ drains' = [drains EXCEPT ![d] = DoneDrain]
  /\ confirmedIds' = confirmedIds \cup Succeeded(d)
  /\ UNCHANGED <<expenses, pendingStore, remote, isOnline, wasOffline,
                 rIsOnline, rIsSyncing, uSyncing, timer, calls, usedIds, syncing, dash>>

\* const remainingPending = await getPendingActions() resolves;
\* setPendingCount; finally setIsSyncing(false)
DrainFinish(d) ==
  /\ Rendered
  /\ drains[d].pc = "recount"
  /\ pendingCount' = Len(getPendingActions(pendingStore))
  /\ isSyncing' = FALSE
  /\ drains' = [drains EXCEPT ![d] = DoneDrain]
  /\ confirmedIds' = confirmedIds \cup Succeeded(d)
  /\ UNCHANGED <<expenses, pendingStore, remote, isOnline, wasOffline,
                 rIsOnline, rIsSyncing, uSyncing, timer, calls, usedIds, syncing, dash>>

\* ------------------------------------------- updateExpense, deleteExpense

\* updateExpense(id, {amount}) is called: await getAllExpenses()
updateExpense(c, id, amount) ==
  /\ Rendered
  /\ calls[c].pc = "idle"
  /\ Cardinality(usedIds) + Reserved < MaxActions
  /\ calls' = [calls EXCEPT ![c] = [IdleCall EXCEPT !.pc = "find",
        !.kind = "update", !.id = id, !.amount = amount,
        !.online = rIsOnline, !.syncing = uSyncing]]
  /\ UNCHANGED <<expenses, pendingStore, remote, isOnline, isSyncing,
                 wasOffline, pendingCount, rIsOnline, rIsSyncing, uSyncing,
                 timer, drains, usedIds, confirmedIds, syncing, dash>>

\* deleteExpense(id) is called: await getAllExpenses()
deleteExpense(c, id) ==
  /\ Rendered
  /\ calls[c].pc = "idle"
  /\ Cardinality(usedIds) + Reserved < MaxActions
  /\ calls' = [calls EXCEPT ![c] = [IdleCall EXCEPT !.pc = "find",
        !.kind = "delete", !.id = id,
        !.online = rIsOnline, !.syncing = uSyncing]]
  /\ UNCHANGED <<expenses, pendingStore, remote, isOnline, isSyncing,
                 wasOffline, pendingCount, rIsOnline, rIsSyncing, uSyncing,
                 timer, drains, usedIds, confirmedIds, syncing, dash>>

\* mutant: the mutation is queued as the creation of a record
NewActionCreate(uuid, kind, expense) ==
  [id |-> uuid, action |-> "create", expense |-> expense, timestamp |-> Now]

\* { id: crypto.randomUUID(), action, expense, timestamp: Date.now() }
NewAction(uuid, kind, expense) ==
  [id |-> uuid, action |-> kind, expense |-> expense, timestamp |-> Now]

\* { ...existing, ...updates, synced: false, updated_at }
Merged(existing, amount) == [existing EXCEPT !.amount = amount, !.synced = FALSE]

\* getAllExpenses() resolves; if (!existing) throw; updateExpense goes on to
\* saveExpense(updatedExpense), deleteExpense to addPendingAction(action)
CallFind(c, uuid) ==
  /\ Rendered
  /\ calls[c].pc = "find"
  /\ uuid \in ActionIds \ usedIds
  /\ LET existing == find(getAllExpenses, calls[c].id)
     IN  IF existing = NoExpense THEN
           /\ calls' = [calls EXCEPT ![c] = IdleCall]
           /\ UNCHANGED usedIds
         ELSE IF calls[c].kind = "update" THEN
           /\ calls' = [calls EXCEPT ![c].pc = "save",
                           ![c].expense = Merged(existing, calls[c].amount)]
           /\ UNCHANGED usedIds
         ELSE
           /\ calls' = [calls EXCEPT ![c].pc = "add", ![c].expense = existing,
                           ![c].action = NewAction(uuid, "delete", existing)]
           /\ usedIds' = usedIds \cup {uuid}
  /\ UNCHANGED <<expenses, pendingStore, remote, isOnline, isSyncing,
                 wasOffline, pendingCount, rIsOnline, rIsSyncing, uSyncing,
                 timer, drains, confirmedIds, syncing, dash>>

\* await offlineStorage.saveExpense(updatedExpense) resolves; the action is built
CallSave(c, uuid) ==
  /\ Rendered
  /\ calls[c].pc = "save"
  /\ uuid \in ActionIds \ usedIds
  /\ expenses' = saveExpense(expenses, calls[c].expense)
  /\ calls' = [calls EXCEPT ![c].pc = "add",
                  ![c].action = NewAction(uuid, "update", calls[c].expense)]
  /\ usedIds' = usedIds \cup {uuid}
  /\ UNCHANGED <<pendingStore, remote, isOnline, isSyncing, wasOffline,
                 pendingCount, rIsOnline, rIsSyncing, uSyncing, timer, drains, confirmedIds, syncing, dash>>

\* await offlineStorage.addPendingAction(action) resolves
CallAdd(c) ==
  /\ Rendered
  /\ calls[c].pc = "add"
  /\ pendingStore' = addPendingAction(pendingStore, calls[c].action)
  /\ calls' = [calls EXCEPT ![c].pc = "count"]
  /\ UNCHANGED <<expenses, remote, isOnline, isSyncing, wasOffline,
                 pendingCount, rIsOnline, rIsSyncing, uSyncing, timer,
                 drains, usedIds, confirmedIds, syncing, dash>>

\* the call's own syncPendingActions() gets past its guard
Triggers(c) == calls[c].online /\ PassesGuard(calls[c].online, calls[c].syncing)

\* mutant: the call awaits the pass it starts (await syncPendingActions())
CallReturnAwaits(c) ==
  /\ Rendered
  /\ calls[c].pc = "count"
  /\ pendingCount' = Len(getPendingActions(pendingStore))
  /\ IF Triggers(c)
       THEN /\ Started # DrainIds
            /\ Enter(FreeDrain)
            /\ calls' = [calls EXCEPT ![c].pc = "await"]
       ELSE /\ calls' = [calls EXCEPT ![c] = IdleCall]
            /\ UNCHANGED <<isSyncing, drains>>
  /\ UNCHANGED <<expenses, pendingStore, remote, isOnline, wasOffline,
                 rIsOnline, rIsSyncing, uSyncing, timer, usedIds, confirmedIds, syncing, dash>>

\* await getPendingActions() resolves; setPendingCount; if (isOnline)
\* syncPendingActions(), not awaited; the call returns
CallReturn(c) ==
  /\ Rendered
  /\ calls[c].pc = "count"
  /\ pendingCount' = Len(getPendingActions(pendingStore))
  /\ calls' = [calls EXCEPT ![c] = IdleCall]
  /\ IF Triggers(c)
       THEN /\ Started # DrainIds
            /\ Enter(FreeDrain)
       ELSE UNCHANGED <<isSyncing, drains>>
  /\ UNCHANGED <<expenses, pendingStore, remote, isOnline, wasOffline,
                 rIsOnline, rIsSyncing, uSyncing, timer, usedIds, confirmedIds, syncing, dash>>

\* ------------------------------------------------------------------- next

\* the values a user edits the field to: any value but the one shown
Edits(id) == {a \in Amounts : a # find(expenses, id).amount}

\* the expenses a call can name: the two cached expenses start out alike,
\* so the first mutation of a behaviour is taken to be on "e1"
Targets == IF usedIds = {} /\ Reserved = 0 THEN {"e1"} ELSE Ids

\* the component calls updateExpense
CallUpdate ==
  \E c \in CallIds, id \in Targets : \E amount \in Edits(id) : updateExpense(c, id, amount)

\* the component calls deleteExpense
CallDelete ==
  \E c \in CallIds, id \in Targets : deleteExpense(c, id)

\* every step but the two calls of the component
Runs ==
  \/ handleOnline
  \/ handleOffline
  \/ Render
  \/ syncPendingActions
  \/ TimerFires
  \/ \E d \in DrainIds : DrainRead(d)
  \/ \E d \in DrainIds : \E o \in {"ok", "error", "throw"} : DrainRemote(d, o)
  \/ \E d \in DrainIds : DrainDeleteLocal(d)
  \/ \E d \in DrainIds : DrainSave(d)
  \/ \E d \in DrainIds : DrainRemove(d)
  \/ \E d \in DrainIds : DrainFinish(d)
  \/ \E c \in CallIds, u \in ActionIds : CallFind(c, u)
  \/ \E c \in CallIds, u \in ActionIds : CallSave(c, u)
  \/ \E c \in CallIds : CallAdd(c)
  \/ \E c \in CallIds : CallReturn(c)

Next ==
  \/ CallUpdate
  \/ CallDelete
  \/ Runs

Spec == Init /\ [][Next]_vars

\* request.onerror of saveExpense's put: the promise rejects, nothing is
\* written and updateExpense throws before it builds the action
CallSaveFails(c) ==
  /\ Rendered
  /\ calls[c].pc = "save"
  /\ calls' = [calls EXCEPT ![c] = IdleCall]
  /\ UNCHANGED <<expenses, pendingStore, remote, isOnline, isSyncing,
                 wasOffline, pendingCount, rIsOnline, rIsSyncing, uSyncing,
                 timer, drains, usedIds, confirmedIds, syncing, dash>>

\* request.onerror of addPendingAction's put: the promise rejects, the
\* action is not stored and updateExpense/deleteExpense throws
CallAddFails(c) ==
  /\ Rendered
  /\ calls[c].pc = "add"
  /\ calls' = [calls EXCEPT ![c] = IdleCall]
  /\ UNCHANGED <<expenses, pendingStore, remote, isOnline, isSyncing,
                 wasOffline, pendingCount, rIsOnline, rIsSyncing, uSyncing,
                 timer, drains, usedIds, confirmedIds, syncing, dash>>

\* The same program over a local store whose writes can fail
NextStoreFails ==
  \/ Next
  \/ \E c \in CallIds : CallSaveFails(c)
  \/ \E c \in CallIds : CallAddFails(c)

SpecStoreFails == Init /\ [][NextStoreFails]_vars

\* ---------------------------------------------------- DashboardClient

\* the state of useOfflineSync and of the local store, which the dashboard
\* does not touch
offlineVars == <<expenses, pendingStore, remote, isOnline, isSyncing,
                 wasOffline, pendingCount, rIsOnline, rIsSyncing, uSyncing,
                 timer, drains, calls, usedIds, confirmedIds>>

\* canSync(lastSyncISO)
canSync(lastSyncISO) ==
  lastSyncISO = Null \/ dash.now - lastSyncISO >= SYNC_COOLDOWN_MS

\* syncSplitwise gets past 'if (syncing) return' and past the cooldown, on
\* the values that the callback closed over
Sends(closure, manual) ==
  ~closure.syncing /\ (manual \/ canSync(closure.lastSyncAt))

\* syncSplitwise(.., manual) of the render with this closure, on the
\* dashboard d: setSyncing(true) and the fetch, or a return (after
\* loadDashboard when it is the cooldown that refuses)
syncSplitwise(closure, manual, d) ==
  IF Sends(closure, manual)
    THEN /\ syncing' = TRUE
         /\ dash' = [d EXCEPT !.requests =
                       Append(@, [manual |-> manual,
                                  syncFailureCount |-> closure.syncFailureCount])]
    ELSE /\ syncing' = syncing
         /\ dash' = d

\* the mount effect: setUser, setTripId, loadLastSyncTime() (whose result is
\* dropped) and syncSplitwise(.., false) through the callback of the first
\* render, where syncing is false and lastSyncAt is null.  The updates are
\* batched into one render, which re-creates syncSplitwise and re-runs the
\* pageshow/visibilitychange effect (deps [user?.id, tripId]): its handlers
\* close over the syncSplitwise of that render for good.
DashboardMount ==
  /\ ~dash.mounted
  /\ LET first == Closure(FALSE, Null, 0)
     IN  syncSplitwise(first, FALSE,
           [dash EXCEPT !.mounted = TRUE,
                        !.lastSyncAt = dash.stored,
                        !.handler = Closure(Sends(first, FALSE) \/ syncing,
                                            dash.stored,
                                            dash.syncFailureCount)])
  /\ UNCHANGED offlineVars

\* the page is loaded again: a new DashboardClient with the initial state;
\* localStorage and the clock stay
Reload ==
  /\ dash.mounted
  /\ syncing' = FALSE
  /\ dash' = [DashboardInit EXCEPT !.now = dash.now, !.stored = dash.stored]
  /\ UNCHANGED offlineVars

\* onClick of the sync button (disabled={syncing}) of the current render:
\* syncSplitwise(.., true)
Click ==
  /\ dash.mounted
  /\ ~syncing
  /\ syncSplitwise(Closure(syncing, dash.lastSyncAt, dash.syncFailureCount),
                   TRUE, dash)
  /\ UNCHANGED offlineVars

\* document 'visibilitychange' with the page visible: syncSplitwise(.., false)
\* through the callback that the handler closed over.  Nothing in it reads
\* the pending queue or calls syncPendingActions.
handleVisibilityChange ==
  /\ dash.mounted
  /\ dash.events < MaxEvents
  /\ syncSplitwise(dash.handler, FALSE, [dash EXCEPT !.events = @ + 1])
  /\ UNCHANGED offlineVars

\* window 'pageshow' from the back/forward cache (e.persisted): the same call
handlePageshow ==
  /\ dash.mounted
  /\ dash.events < MaxEvents
  /\ syncSplitwise(dash.handler, FALSE, [dash EXCEPT !.events = @ + 1])
  /\ UNCHANGED offlineVars

\* mutant: the error toast from the first failure on
InterruptsAlways(nextFailures) == nextFailures >= 1

\* if (nextFailures >= 2) toast.error(..)
Interrupts(nextFailures) == nextFailures >= 2

\* the oldest request settles.  ok: setSyncFailureCount(0) and
\* saveLastSyncTime(); otherwise the catch: nextFailures from the count that
\* the callback closed over, and the toast.  finally setSyncing(false).
syncSplitwiseSettles(ok) ==
  /\ dash.requests # <<>>
  /\ LET request == Head(dash.requests)
         nextFailures == request.syncFailureCount + 1
     IN  IF ok
           THEN dash' = [dash EXCEPT !.requests = Tail(@),
                                     !.syncFailureCount = 0,
                                     !.lastSyncAt = dash.now,
                                     !.stored = dash.now,
                                     !.toast = FALSE,
                                     !.result = "ok"]
           ELSE /\ nextFailures <= MaxFailures
                /\ dash' = [dash EXCEPT !.requests = Tail(@),
                                        !.syncFailureCount = nextFailures,
                                        !.toast = Interrupts(nextFailures),
                                        !.result = "failed"]
  /\ syncing' = FALSE
  /\ UNCHANGED offlineVars

\* 'storage' event: another tab has written its sync time to localStorage;
\* setLastSyncAt(e.newValue)
handleStorageChange ==
  /\ dash.mounted
  /\ dash.stored # dash.now
  /\ dash' = [dash EXCEPT !.stored = dash.now, !.lastSyncAt = dash.now]
  /\ UNCHANGED <<syncing, offlineVars>>

\* a minute passes
Tick ==
  /\ dash.now < MaxTime
  /\ dash' = [dash EXCEPT !.now = @ + 1]
  /\ UNCHANGED <<syncing, offlineVars>>

NextDashboard ==
  \/ DashboardMount
  \/ Reload
  \/ Click
  \/ handleVisibilityChange
  \/ handlePageshow
  \/ \E ok \in BOOLEAN : syncSplitwiseSettles(ok)
  \/ handleStorageChange
  \/ Tick

\* DashboardClient on its own
SpecDashboard == Init /\ [][NextDashboard]_vars

\* The same program when the user edits and deletes only while the
\* component shows the client as offline
NextOffline ==
  \/ ~rIsOnline /\ CallUpdate
  \/ ~rIsOnline /\ CallDelete
  \/ Runs

SpecOffline == Init /\ [][NextOffline]_vars

\* The same program on a page that also shows the dashboard, with the
\* foreground events of the page
NextForeground ==
  \/ NextOffline
  \/ DashboardMount
  \/ handleVisibilityChange
  \/ handlePageshow
  \/ \E ok \in BOOLEAN : syncSplitwiseSettles(ok)

SpecForeground == Init /\ [][NextForeground]_vars

\* the awaited operation that pass d is suspended on settles
DrainStep(d) ==
  \/ DrainRead(d)
  \/ \E o \in {"ok", "error", "throw"} : DrainRemote(d, o)
  \/ DrainDeleteLocal(d)
  \/ DrainSave(d)
  \/ DrainRemove(d)
  \/ DrainFinish(d)

\* the awaited storage operation that call c is suspended on settles
CallStep(c) ==
  \/ \E u \in ActionIds : CallFind(c, u)
  \/ \E u \in ActionIds : CallSave(c, u)
  \/ CallAdd(c)
  \/ CallReturn(c)

\* React commits a pending render, an armed timeout fires, and every awaited
\* operation settles; events of the user and of the network need not happen
Scheduling ==
  /\ WF_vars(Render)
  /\ WF_vars(TimerFires)
  /\ \A d \in DrainIds : WF_vars(DrainStep(d))
  /\ \A c \in CallIds : WF_vars(CallStep(c))

SpecOfflineFair == SpecOffline /\ Scheduling

\* The same program when no remote call ever settles (the network hangs):
\* a pass that has something to send stays at its first remote call
NextHung ==
  \/ CallUpdate
  \/ CallDelete
  \/ handleOnline
  \/ handleOffline
  \/ Render
  \/ syncPendingActions
  \/ TimerFires
  \/ \E d \in DrainIds : DrainRead(d)
  \/ \E d \in DrainIds : DrainFinish(d)
  \/ \E c \in CallIds : CallStep(c)

\* React commits a pending render and the awaited operations of the local
\* store settle; they settle however often the connectivity changes, which
\* only makes them wait for the render in between
LocalScheduling ==
  /\ WF_vars(Render)
  /\ \A c \in CallIds : SF_vars(CallStep(c))

SpecHung == Init /\ [][NextHung]_vars /\ LocalScheduling

\* mutant: no finally, a failed read of the queue ends the pass with the
\* flag still raised
DrainReadFailsNoFinally(d) ==
  /\ Rendered
  /\ drains[d].pc \in {"read", "recount"}
  /\ drains' = [drains EXCEPT ![d] = DoneDrain]
  /\ confirmedIds' = confirmedIds \cup Succeeded(d)
  /\ UNCHANGED <<expenses, pendingStore, remote, isOnline, isSyncing,
                 wasOffline, pendingCount, rIsOnline, rIsSyncing, uSyncing,
                 timer, calls, usedIds, syncing, dash>>

\* request.onerror of getPendingActions, at the start of the pass or at the
\* recount: the outer catch logs it and the finally runs setIsSyncing(false)
DrainReadFails(d) ==
  /\ Rendered
  /\ drains[d].pc \in {"read", "recount"}
  /\ isSyncing' = FALSE
  /\ drains' = [drains EXCEPT ![d] = DoneDrain]
  /\ confirmedIds' = confirmedIds \cup Succeeded(d)
  /\ UNCHANGED <<expenses, pendingStore, remote, isOnline, wasOffline,
                 pendingCount, rIsOnline, rIsSyncing, uSyncing, timer, calls,
                 usedIds, syncing, dash>>

\* The program of SpecOffline over a local store whose queue can fail to be
\* read inside a pass
NextDrainFails ==
  \/ NextOffline
  \/ \E d \in DrainIds : DrainReadFails(d)

\* React commits a pending render, an armed timeout fires and every awaited
\* operation settles, however often the connectivity changes
Settling ==
  /\ WF_vars(Render)
  /\ WF_vars(TimerFires)
  /\ \A d \in DrainIds : SF_vars(DrainStep(d))
  /\ \A c \in CallIds : SF_vars(CallStep(c))

SpecDrainFails == Init /\ [][NextDrainFails]_vars /\ Settling

\* ------------------------------------------- the local store on its own

\* the arrays passed to saveMultipleExpenses
Lists == UNION {[1 .. n -> OfflineExpense] : n \in 0 .. MaxLen}

\* the actions passed to addPendingAction
PendingAction ==
  [id : ActionIds, action : {"update", "delete"},
   expense : {e \in OfflineExpense : e.id = "e1" /\ ~e.synced}, timestamp : {1}]

\* the state of the hook, which the store does not touch
hookVars == <<remote, isOnline, isSyncing, wasOffline, pendingCount,
              rIsOnline, rIsSyncing, uSyncing, timer, drains, calls,
              usedIds, confirmedIds, syncing, dash>>

\* offlineStorage.saveExpense(expense)
StoreSaveExpense ==
  \E e \in OfflineExpense :
    /\ expenses' = saveExpense(expenses, e)
    /\ UNCHANGED <<pendingStore, hookVars>>

\* offlineStorage.saveMultipleExpenses(list)
StoreSaveMultipleExpenses ==
  \E list \in Lists :
    /\ expenses' = saveMultipleExpenses(expenses, list)
    /\ UNCHANGED <<pendingStore, hookVars>>

\* offlineStorage.deleteExpense(id)
StoreDeleteExpense ==
  \E id \in Ids :
    /\ expenses' = deleteExpenseRecord(expenses, id)
    /\ UNCHANGED <<pendingStore, hookVars>>

\* offlineStorage.addPendingAction(action)
StoreAddPendingAction ==
  \E a \in PendingAction :
    /\ pendingStore' = addPendingAction(pendingStore, a)
    /\ UNCHANGED <<expenses, hookVars>>

\* offlineStorage.deletePendingAction(id)
StoreDeletePendingAction ==
  \E id \in ActionIds :
    /\ pendingStore' = deletePendingAction(pendingStore, id)
    /\ UNCHANGED <<expenses, hookVars>>

NextStore ==
  \/ StoreSaveExpense
  \/ StoreSaveMultipleExpenses
  \/ StoreDeleteExpense
  \/ StoreAddPendingAction
  \/ StoreDeletePendingAction

\* any sequence of operations of OfflineStorage on the two object stores
SpecStore == Init /\ [][NextStore]_vars

\* ----------------------------------------------------------------- claims

\* outcome of the remote call of the j-th action of pass d, once it settled
Outcome(d, j) == drains[d].out[j]

\* pass d takes a step
Steps(d) == drains'[d] # drains[d]

\* pass d is past the remote call of its current action, in the local writes
InWrites(d) == drains[d].pc \in {"save", "deleteLocal", "remove"}

\* the actions that pass d read from the queue
Read(d) == {drains[d].pending[j] : j \in 1 .. Len(drains[d].pending)}

\* C1: at most one reconciliation drain executes at a time: while a pass is
\* in flight every further trigger of syncPendingActions (update, delete,
\* the online timer, a direct call) returns without starting a second pass.
C1_AtMostOneDrain == Cardinality(InFlight) <= 1

\* C2: a pass issues the remote calls in enqueue-timestamp order: of two
\* update actions on the same record that the pass succeeded on, the one
\* enqueued earlier was sent first, whatever the generated ids are.
C2_EnqueueOrder ==
  \A d \in DrainIds : \A j, k \in 1 .. Len(drains[d].out) :
    LET a == drains[d].pending[j]
        b == drains[d].pending[k]
    IN  ( /\ j < k
          /\ a.action = "update" /\ b.action = "update"
          /\ a.expense.id = b.expense.id
          /\ Outcome(d, j) = "ok" /\ Outcome(d, k) = "ok" )
        => a.timestamp < b.timestamp

\* C3: when the remote call of an action fails (it throws or it resolves to
\* an error) the pass leaves the cached records and the queue as they are,
\* and an action leaves the queue only after its remote call succeeded.
C3_FailedStep ==
  \A d \in DrainIds :
    (InWrites(d) /\ Steps(d) /\ Outcome(d, drains[d].i) # "ok")
      => UNCHANGED <<expenses, pendingStore>>

C3_Removal ==
  \A a \in pendingStore :
    a \notin pendingStore' =>
      \E d \in DrainIds : /\ drains[d].pc = "remove" /\ Steps(d)
                          /\ Current(d).id = a.id
                          /\ Outcome(d, drains[d].i) = "ok"

C3_UntouchedOnFailure == [][C3_FailedStep /\ C3_Removal]_vars

\* C4: failures are isolated within a pass: at the end of a pass in which
\* action A failed and update B on another record succeeded, B's record is
\* the snapshot with synced = true, B is off the queue and A is still queued
\* unchanged.
C4_FailureIsolated ==
  \A d \in DrainIds :
    (drains[d].pc = "recount" /\ InFlight = {d}) =>
      \A j, k \in 1 .. Len(drains[d].pending) :
        LET A == drains[d].pending[j]
            B == drains[d].pending[k]
        IN  ( /\ A.expense.id # B.expense.id
              /\ Outcome(d, j) \in {"error", "throw"}
              /\ Outcome(d, k) = "ok" /\ B.action = "update" )
            => /\ A \in pendingStore
               /\ B \notin pendingStore
               /\ find(expenses, B.expense.id) = Synced(B.expense)

\* C6: optimistic visibility: at the moment updateExpense returns,
\* getAllExpenses() holds the record with the merged fields, and with
\* synced = false unless a pass has already picked up the action of this
\* very call; also while a pass over earlier actions on the same record is
\* in flight.
C6_OptimisticVisibility ==
  [][\A c \in CallIds :
       (calls[c].pc = "count" /\ calls[c].kind = "update" /\ calls'[c].pc = "idle")
         => LET e == find(expenses', calls[c].id)
            IN  /\ e.amount = calls[c].expense.amount
                /\ (\A d \in DrainIds : calls[c].action \notin Read(d)) => ~e.synced]_vars

\* C7: delete is conservative: no step of deleteExpense changes the cached
\* records, and a cached record disappears only in the step of a pass that
\* deletes it locally after the remote delete for that record succeeded.
C7_DeleteKeeps ==
  \A c \in CallIds :
    (calls[c].kind = "delete" /\ calls'[c] # calls[c]) => expenses' = expenses

C7_OnlyConfirmed ==
  \A e \in expenses :
    find(expenses', e.id) = NoExpense =>
      \E d \in DrainIds : /\ drains[d].pc = "deleteLocal" /\ Steps(d)
                          /\ Current(d).action = "delete"
                          /\ Current(d).expense.id = e.id
                          /\ Outcome(d, drains[d].i) = "ok"

C7_DeleteConservative == [][C7_DeleteKeeps /\ C7_OnlyConfirmed]_vars

\* the remote delete of record r succeeded and the pass that ran it has
\* finished its local delete
DeleteDrained(r) ==
  /\ remote[r] = 0
  /\ \A d \in DrainIds :
       ~(drains[d].pc = "deleteLocal" /\ Current(d).expense.id = r)

\* C8: once a delete action for record r has been drained successfully, r
\* is absent from the local store at the end of that pass and of every later
\* pass, also when updates of r were queued before or after the delete.
C8_DeletedStaysAbsent ==
  \A d \in DrainIds :
    drains[d].pc = "recount" =>
      \A r \in Ids : DeleteDrained(r) => find(expenses, r) = NoExpense

\* every remote call of pass d so far succeeded
AllOk(d) == \A j \in 1 .. Len(drains[d].out) : Outcome(d, j) = "ok"

\* C5: replay is idempotent: at the end of a pass in which every action
\* succeeded none of the actions it read is left in the queue, and a pass
\* that reads the queue afterwards gets none of the actions a finished pass
\* succeeded on, so it issues no remote call for them (none at all when
\* nothing was enqueued in between).
\* The two passes run one after the other; two passes in flight together
\* are the subject of C1.
C5_EmptyAfterSuccess ==
  \A d \in DrainIds :
    (drains[d].pc = "recount" /\ AllOk(d)) => Read(d) \cap pendingStore = {}

C5_SecondRead ==
  \A d \in DrainIds :
    (drains[d].pc = "read" /\ Steps(d)) =>
      /\ \A a \in Read(d)' : a.id \notin confirmedIds
      /\ pendingStore = {} => drains'[d].pc = "recount"

C9_OfflineUpdateSynced ==
  \A d \in DrainIds :
    drains[d].pc = "recount" =>
      \A j \in 1 .. Len(drains[d].pending) :
        LET a == drains[d].pending[j]
        IN  (usedIds = {a.id} /\ a.action = "update" /\ Outcome(d, j) = "ok")
            => /\ remote[a.expense.id] = a.expense.amount
               /\ InFlight = {d} /\ a.id \notin confirmedIds
               /\ Len(drains[d].pending) = 1
               /\ find(expenses, a.expense.id) = [a.expense EXCEPT !.synced = TRUE]
               /\ pendingStore = {}

C9_Witness ==
  \E d \in DrainIds :
    /\ drains[d].pc = "recount" /\ drains[d].out = <<"ok">>
    /\ drains[d].pending[1].action = "update"
    /\ usedIds = {drains[d].pending[1].id}
    /\ ~drains[d].pending[1].expense.synced
    /\ find(expenses, "e1").synced /\ find(expenses, "e1").amount = 25

\* C10: a queued delete whose remote call throws (the only action and the
\* only pass of the behaviour): at the end of the pass the record is still
\* in getAllExpenses() and the action still in getPendingActions().
C10_ThrownDeleteKeepsBoth ==
  \A d \in DrainIds :
    (drains[d].pc = "recount" /\ Started = {d}) =>
      \A j \in 1 .. Len(drains[d].pending) :
        LET a == drains[d].pending[j]
        IN  (usedIds = {a.id} /\ a.action = "delete" /\ Outcome(d, j) = "throw")
            => /\ a.expense \in getAllExpenses
               /\ a \in Read(d) \cap pendingStore
               /\ getPendingActions(pendingStore) = <<a>>

C10_Witness ==
  \E d \in DrainIds :
    /\ drains[d].pc = "recount" /\ Started = {d}
    /\ drains[d].out = <<"throw">>
    /\ drains[d].pending[1].action = "delete"
    /\ usedIds = {drains[d].pending[1].id}

\* call c is waiting for getAllExpenses() and the store has no record with its id
Missing(c) ==
  /\ calls[c].pc = "find"
  /\ ~\E e \in expenses : e.id = calls[c].id

\* C11: updateExpense(id, ..) and deleteExpense(id) on an id that has no
\* cached record reject (the call ends at the lookup) and leave the cached
\* records and the queue as they are: no record is created, no action is
\* generated or enqueued, and no pass is started.
C11_NotFoundRejects ==
  [][\A c \in CallIds :
       (Missing(c) /\ calls'[c] # calls[c])
         => /\ calls'[c].pc = "idle"
            /\ UNCHANGED <<expenses, pendingStore, usedIds, pendingCount,
                           isSyncing, drains>>]_vars

\* a call was made on a record that a pass has deleted
C11_Witness ==
  \E c \in CallIds :
    /\ Missing(c)
    /\ calls[c].kind = "update"
    /\ pendingStore = {} /\ InFlight = {}

\* C12: a later edit is never overwritten by an earlier one: at the end of
\* a pass that succeeded on two update actions of the same record (the only
\* actions, no other pass in flight) the remote row and the cached record
\* carry the snapshot of the action enqueued last.
C12_LastEditWins ==
  \A d \in DrainIds :
    (drains[d].pc = "recount" /\ InFlight = {d}) =>
      \A j, k \in 1 .. Len(drains[d].pending) :
        LET a == drains[d].pending[j]
            b == drains[d].pending[k]
        IN  ( /\ a.action = "update" /\ b.action = "update"
              /\ a.expense.id = b.expense.id
              /\ a.timestamp < b.timestamp
              /\ usedIds = {a.id, b.id}
              /\ Outcome(d, j) = "ok" /\ Outcome(d, k) = "ok" )
            => /\ remote[b.expense.id] = b.expense.amount
               /\ find(expenses, b.expense.id).amount = b.expense.amount

\* the remote service has answered the call for action a in a pass in flight
Answered(a) ==
  \E d \in DrainIds : \E j \in 1 .. Len(drains[d].out) :
    drains[d].pending[j] = a /\ Outcome(d, j) # "throw"

\* C13: a cached record that reflects a local mutation not yet confirmed
\* remotely has synced = false: while the queue holds an update action of
\* record r that the remote service has not answered, the cached record r
\* has synced = false.
C13_UnconfirmedIsUnsynced ==
  \A a \in pendingStore :
    (a.action = "update" /\ ~Answered(a)) => ~find(expenses, a.expense.id).synced

\* C14: the pending action is created atomically with the optimistic local
\* mutation: once updateExpense has returned or thrown, also after a failed
\* write of the local store, a cached record that carries an edit with
\* synced = false has its update action in the queue.
C14_AtomicEnqueue ==
  (\A c \in CallIds : calls[c].pc = "idle") =>
    \A e \in expenses :
      ~e.synced => \E a \in pendingStore : a.action = "update" /\ a.expense = e

\* C15: entry to draining is refused while offline: while the connectivity
\* state is offline no invocation of syncPendingActions gets past the
\* guard, whoever makes it, so no pass is started and the in-progress flag
\* is not raised.
C15_OfflineRefused ==
  [][~isOnline => (Started' = Started /\ (isSyncing' => isSyncing))]_vars

\* the online effect arms its timeout
Arms == timer' /\ ~timer

\* C16: every offline-to-online transition triggers a reconciliation pass,
\* once per edge: the timeout is armed only by an edge not yet used, which
\* it uses up, and while the client stays online an edge not yet used leads
\* to the start of a pass, also when it arrives while a pass is in progress.
C16_Once == [][Arms => (isOnline /\ wasOffline /\ ~wasOffline')]_vars

C16_Leads ==
  \A n \in 0 .. MaxDrains - 1 :
    (isOnline /\ wasOffline /\ Cardinality(Started) = n)
      ~> (~isOnline \/ Cardinality(Started) > n)

C16_OnlineEdgeDrains == C16_Once /\ C16_Leads

\* an edge has arrived while a pass is in progress: the effect has run and
\* has left the edge for the render that follows the end of the pass
C16_Witness ==
  /\ isOnline /\ wasOffline /\ Rendered
  /\ InFlight # {} /\ ~timer
  /\ pendingStore # {}

\* C17: an action whose remote call fails stays in the queue, with no limit
\* on the attempts: every pass makes a remote call for each action it read,
\* and at the end of a pass an action whose call failed in it (and succeeded
\* in no pass that has finished) is still queued, for the next pass to read.
C17_FailedStaysQueued ==
  \A d \in DrainIds :
    (drains[d].pc = "recount" /\ InFlight = {d}) =>
      /\ Len(drains[d].out) = Len(drains[d].pending)
      /\ \A j \in 1 .. Len(drains[d].pending) :
           LET a == drains[d].pending[j]
           IN  (Outcome(d, j) # "ok" /\ a.id \notin confirmedIds)
                 => a \in pendingStore

\* the queue holds an action that the passes so far have left there, the
\* client is online, and nothing is in progress or scheduled
AwaitsRetry ==
  /\ isOnline /\ Rendered /\ ~isSyncing /\ ~timer
  /\ pendingStore # {}
  /\ \E d \in DrainIds : drains[d].pc = "done"
  /\ InFlight = {}
  /\ \A c \in CallIds : calls[c].pc = "idle"

\* C18: a foreground/visibility event that occurs while online with a
\* non-empty queue triggers a pass, so that a previously failed action is
\* retried without a new mutation or a connectivity change.
C18_ForegroundDrains ==
  [][(AwaitsRetry /\ dash'.events > dash.events) => Started' # Started]_vars

\* no pass and no updateExpense/deleteExpense call is in progress
Quiet ==
  /\ InFlight = {}
  /\ \A c \in CallIds : calls[c].pc = "idle"

CallSteps(c) == calls'[c] # calls[c]

\* C20: the queue is append-only per user action: a step of updateExpense
\* or deleteExpense never removes or changes a queued action; the step that
\* enqueues adds exactly one new action, of the kind of the call, with a
\* fresh id and with the snapshot of the call: for an update the merged
\* record that the call stored, for a delete the record as it was stored.
\* Two edits of one record so give two queue entries.
C20_Enqueues ==
  \A c \in CallIds :
    (calls[c].pc = "add" /\ calls'[c].pc = "count") =>
      LET a == calls[c].action
      IN  /\ a \notin pendingStore
          /\ \A b \in pendingStore : b.id # a.id
          /\ pendingStore' = pendingStore \cup {a}
          /\ a.action = calls[c].kind
          /\ a.expense = calls[c].expense
          /\ a.expense.id = calls[c].id
          /\ a.action = "update" =>
               (~a.expense.synced /\ a.expense.amount = calls[c].amount)

C20_Stores ==
  \A c \in CallIds :
    /\ (calls[c].pc = "save" /\ calls'[c].pc = "add") =>
         /\ calls'[c].action.expense \in expenses'
         /\ calls'[c].action.expense = calls[c].expense
    /\ (calls[c].pc = "find" /\ calls'[c].pc = "add") =>
         /\ calls'[c].expense \in expenses
         /\ calls'[c].action.expense = calls'[c].expense

C20_Keeps ==
  \A c \in CallIds : CallSteps(c) => pendingStore \subseteq pendingStore'

C20_AppendOnly == [][C20_Enqueues /\ C20_Stores /\ C20_Keeps]_vars

\* two edits of one record are two entries of the queue
C20_Witness ==
  \E a, b \in pendingStore :
    /\ a.id # b.id
    /\ a.action = "update" /\ b.action = "update"
    /\ a.expense.id = b.expense.id
    /\ a.expense.amount # b.expense.amount

\* C21: record creation is never queued offline: every action in the queue,
\* and every action a pass has read, is an update or a delete, and when a
\* step of a pass makes a record appear in the cache it is the write-back of
\* the snapshot of an update action, whose id updateExpense had stored.
C21_Kinds ==
  /\ \A a \in pendingStore : a.action \in {"update", "delete"}
  /\ \A d \in DrainIds : \A a \in Read(d) : a.action \in {"update", "delete"}

C21_Appears ==
  \A d \in DrainIds : \A r \in Ids :
    (Steps(d) /\ find(expenses, r) = NoExpense /\ find(expenses', r) # NoExpense)
      => /\ drains[d].pc = "save"
         /\ Current(d).action = "update"
         /\ Current(d).expense.id = r
         /\ find(expenses', r).amount = Current(d).expense.amount

C21_NoOfflineCreate == []C21_Kinds /\ [][C21_Appears]_vars

\* a pass has written back the snapshot of an update while a delete is queued
C21_Witness ==
  \E d \in DrainIds :
    /\ drains[d].pc = "remove"
    /\ Current(d).action = "update"
    /\ find(expenses, Current(d).expense.id).synced
    /\ \E a \in pendingStore : a.action = "delete"

\* C22: updateExpense and deleteExpense do not block on reconciliation: the
\* step that triggers the pass is the step in which the call returns, and
\* with every remote call hung a call in flight still returns (as long as
\* the passes of the behaviour are not used up).
C22_ReturnsAtTrigger ==
  \A c \in CallIds :
    (calls[c].pc = "count" /\ CallSteps(c)) => calls'[c].pc = "idle"

C22_Returns ==
  \A c \in CallIds :
    (calls[c].pc # "idle") ~> (calls[c].pc = "idle" \/ Started = DrainIds)

C22_NonBlocking == [][C22_ReturnsAtTrigger]_vars /\ C22_Returns

\* a call made while online is in flight while a pass hangs on its remote call
C22_Witness ==
  \E c \in CallIds, d \in DrainIds :
    /\ drains[d].pc = "remote"
    /\ calls[c].pc = "count" /\ calls[c].kind = "update"
    /\ Triggers(c)
    /\ Started # DrainIds

\* the passes that are waiting for a remote call to settle
Calling == {d \in DrainIds : drains[d].pc = "remote"}

\* C23: remote calls are strictly sequential: at every moment at most one
\* remote update/delete call of the reconciliation is in flight.
C23_OneRemoteCall == Cardinality(Calling) <= 1

\* C24: a pass always runs to completion and returns to idle: provided the
\* awaited operations settle, every started pass ends, and the step that
\* ends it leaves the in-progress flag false, also when reading the queue
\* fails or when actions fail, so that the flag does not stay raised.
C24_EndsIdle ==
  \A d \in DrainIds :
    (drains[d].pc # "done" /\ drains'[d].pc = "done") => ~isSyncing'

C24_Ends ==
  \A d \in DrainIds : (d \in InFlight) ~> (drains[d].pc = "done")

C24_FlagFalls == (InFlight # {}) ~> (InFlight = {} /\ ~isSyncing)

C24_RunsToCompletion == [][C24_EndsIdle]_vars /\ C24_Ends /\ C24_FlagFalls

\* a pass has ended on a failed recount: the flag is down and the exposed
\* count is the one from before the pass
C24_Witness ==
  /\ Quiet /\ ~isSyncing
  /\ drains[1].pc = "done"
  /\ pendingCount # Cardinality(pendingStore)

\* call c ends without having run to its return
Rejects(c) == calls[c].pc \notin {"idle", "count"} /\ calls'[c].pc = "idle"

\* the remote call that pass d awaits settles
Settles(d) == drains[d].pc = "remote" /\ drains'[d] # drains[d]

\* C25: reconciliation errors are swallowed: a remote call of a pass that
\* fails leaves the pass in its loop (syncPendingActions does not reject) and
\* leaves every updateExpense/deleteExpense call as it is; such a call ends
\* early only at the lookup of a missing record or at a local-store
\* operation that fails.
C25_Swallowed ==
  [][/\ \A d \in DrainIds :
          Settles(d) => /\ drains'[d].pc \in {"remote", "recount", "deleteLocal", "save"}
                        /\ calls' = calls
     /\ \A c \in CallIds :
          Rejects(c) => \/ Missing(c)
                        \/ /\ calls[c].pc \in {"save", "add"}
                           /\ UNCHANGED <<expenses, pendingStore>>]_vars

\* a remote call of a pass has thrown while an update/delete call was
\* running; the call has got to its last step
C25_Witness ==
  \E d \in DrainIds : \E c \in CallIds :
    /\ drains[d].pc \in {"remote", "recount"}
    /\ \E j \in 1 .. Len(drains[d].out) : drains[d].out[j] = "throw"
    /\ calls[c].pc = "count"

\* the records of a store have distinct ids
OnePerId(store) == \A e \in store : \A f \in store : e.id = f.id => e = f

\* C26: saveExpense/saveMultipleExpenses are idempotent insert-or-replace
\* keyed by id: after any sequence of store operations the expenses store
\* holds at most one record per id; saving a record puts it in the place of
\* the record of its id and keeps the others; saving the same record, or
\* the same list, twice gives the store of saving it once; and a step that
\* changes the expenses store leaves the pending queue as it is.
C26_OnePerId == OnePerId(expenses)

C26_Replaces ==
  \A e \in OfflineExpense :
    LET once == saveExpense(expenses, e)
    IN  /\ e \in once
        /\ \A f \in once : f.id = e.id => f = e
        /\ \A f \in expenses : f.id # e.id => f \in once
        /\ \A f \in once : f # e => f \in expenses
        /\ saveExpense(once, e) = once

C26_ListIdempotent ==
  \A list \in Lists :
    LET once == saveMultipleExpenses(expenses, list)
    IN  /\ saveMultipleExpenses(once, list) = once
        /\ OnePerId(once)
        /\ \A j \in 1 .. Len(list) :
             \E f \in once : f.id = list[j].id
        /\ Len(list) > 0 => list[Len(list)] \in once

C26_QueueKept == expenses' # expenses => pendingStore' = pendingStore

C26_InsertOrReplace ==
  /\ [](C26_OnePerId /\ C26_Replaces /\ C26_ListIdempotent)
  /\ [][C26_QueueKept]_vars

\* a saved record has taken the place of the record of its id while the
\* queue holds an action
C26_Witness ==
  /\ \E e \in expenses : e.id = "e1" /\ e.amount = 25 /\ ~e.synced
  /\ \E e \in expenses : e.id = "e2" /\ e.amount = 25
  /\ Cardinality(expenses) = 2
  /\ pendingStore # {}

\* pass d has read the queue and has not finished
Working(d) == drains[d].pc \notin {"idle", "read", "done"}

\* the actions in the queue that pass d did not read: they were enqueued
\* after its read
Late(d) == pendingStore \ Read(d)

\* C27: a pass works on the list it read at its start: an action enqueued
\* while the pass is in flight is not the action of any remote call of the
\* pass and stays in the queue for as long as the pass runs, up to and
\* including the step that ends it.
C27_LateStays ==
  [][\A d \in DrainIds :
       Working(d) => \A a \in Late(d) : a \in pendingStore']_vars

\* the queue holds actions that the passes so far have left there, the
\* client is online, nothing is in progress or scheduled, and n passes have
\* been started so far
Stranded(n) == AwaitsRetry /\ Cardinality(Started) = n

\* C28: no queued action is stranded: whenever the client is online, no pass
\* or call is in progress and the queue is not empty, a further pass is eventually
\* started (or the client goes offline first), with no update, delete or
\* connectivity change needed for it.
C28_NotStranded ==
  \A n \in 0 .. MaxDrains - 1 :
    Stranded(n) ~> (Cardinality(Started) > n \/ ~isOnline)

\* a step in which syncSplitwise(.., false) is called: by the mount effect
\* or by a pageshow/visibilitychange handler
Automatic ==
  \/ ~dash.mounted /\ dash'.mounted
  \/ dash'.events > dash.events

\* the last sync recorded in localStorage is less than the cooldown old
InCooldown ==
  dash.stored # Null /\ dash.now - dash.stored < SYNC_COOLDOWN_MS

\* C29: the lock and the cooldown of the dashboard's Splitwise sync: at most
\* one request to the sync endpoint is in flight at a time, and an
\* automatic syncSplitwise call made less than 3 minutes after the last
\* recorded sync sends no request, whichever of the mount effect, the
\* pageshow handler and the visibilitychange handler makes it and however
\* the button is clicked in between.
C29_OneRequest == Len(dash.requests) <= 1

C29_NoRequest == (Automatic /\ InCooldown) => dash'.requests = dash.requests

C29_LockAndCooldown == []C29_OneRequest /\ [][C29_NoRequest]_vars

\* a sync of the mounted dashboard settles in this step
Settled == dash'.mounted /\ Len(dash'.requests) < Len(dash.requests)

\* C30: the user is interrupted only after a threshold of consecutive sync
\* failures: a sync that succeeds sets the failure counter to 0 and shows no
\* error toast, a sync that fails adds one to it, and the failed sync shows
\* the error toast exactly when the counter so gets to 2 or more; a single
\* failure after a success shows none.
C30_Threshold ==
  [][Settled =>
       /\ dash'.result = "ok" =>
            /\ dash'.syncFailureCount = 0
            /\ ~dash'.toast
       /\ dash'.result = "failed" =>
            /\ dash'.syncFailureCount = dash.syncFailureCount + 1
            /\ dash'.toast <=> dash'.syncFailureCount >= 2
            /\ dash.result = "ok" => ~dash'.toast]_vars

\* a second failure in a row has shown the toast
C30_Witness ==
  /\ dash.result = "failed"
  /\ dash.syncFailureCount = 2
  /\ dash.toast

TypeOK ==
  /\ \A e \in expenses : e \in OfflineExpense
  /\ isOnline \in BOOLEAN /\ isSyncing \in BOOLEAN
  /\ pendingCount \in 0 .. MaxActions
====
